---- MODULE Spec2Model ----
(***************************************************************************)
(* Name-Spinner backend: the selection write path of                       *)
(* src/controllers/history.ts (selectParticipant, createSelectionRecord,   *)
(* clearSelectionHistory) over the Participant, Meeting and                *)
(* SelectionRecord collections.                                            *)
(*                                                                         *)
(* Every handler opens a mongoose session and transaction.  Its writes go  *)
(* to the transaction's working copy (tx) and reach the collections that   *)
(* other readers see (records, participants, meetings) only at             *)
(* commitTransaction; abortTransaction drops the working copy.             *)
(***************************************************************************)
EXTENDS Integers, Sequences, FiniteSets, TLC

VARIABLES records, participants, meetings, now, nextId, req, tx

vars == <<records, participants, meetings, now, nextId, req, tx>>

----------------------------------------------------------------------------
(* Bounds of the model *)

\* the clock runs from 1 to MaxTime
MaxTime == 2
\* at most MaxRecords SelectionRecords are ever created under Spec
MaxRecords == 1
\* the number of selects of the three-person scenario
ScenarioRuns == 4
\* the analytics are asked over histories of at most MaxSlots SelectionRecords
MaxSlots == 4
\* at most MaxJobs export jobs are created
MaxJobs == 1
\* a week's metric (meetings, participants, spins) runs from 0 to MaxMetric
MaxMetric == 200
\* the number of requests served at the same time
MaxProcs == 2

----------------------------------------------------------------------------
(* The data the collaborators provide *)

\* lastSelected / lastActivity when unset (null)
Null == -1

\* Participant ids, in the order Participant.find returns the documents
PartOrder == <<"A", "B", "C", "D">>
\* the participants of Spec, of the three-person scenario, and of the filter's pools
Parts == {"A", "B"}
ScenarioParts == {"A", "B", "C"}
AllParts == {"A", "B", "C", "D"}
\* M has no roster, R has one
Meets == {"M", "R"}
Depts == {"eng", "ops"}

\* a well-formed id that names no document; "" is a missing request field
Ghost == "ghost"
Missing == ""

\* Participant.department, isActive, meetingId as created by the CRUD handlers
PartDepartment(p) == "eng"
PartMeeting(p) == IF p = "A" THEN "M" ELSE Missing
\* Participant.email; a roster entry refers to a participant by email
Email(p) == p
\* Meeting.participants: the e-mails of the embedded roster ({} = no roster)
Roster(m) == IF m = "R" THEN {"A", "C"} ELSE {}

\* Participant.organizationId and Meeting.organizationId: the tenant of a document
PartOrg(p) == IF p \in {"A", "C"} THEN "org1" ELSE "org2"
MeetOrg(m) == "org1"

Methods == {"random", "weighted", "manual", "other"}
\* SelectionRecord.selectionMethod enum
MethodEnum == {"random", "weighted", "manual"}

----------------------------------------------------------------------------
(* Pure parts of selectParticipant *)

\* the sort key of a participant: lastSelected's time, 0 when unset
SortKey(parts, p) == IF parts[p].lastSelected = Null THEN 0 ELSE parts[p].lastSelected

\* Math.floor where the code takes Math.ceil
FloorHalf(n) == n \div 2

\* Math.ceil(n / 2)
CeilHalf(n) == (n + 1) \div 2

\* the comparator key(b) - key(a): most recently selected first
CompareDescending(parts, a, b) == SortKey(parts, b) - SortKey(parts, a)

\* the comparator of lines 213-216: key(a) - key(b)
Compare(parts, a, b) == SortKey(parts, a) - SortKey(parts, b)

\* participants.sort(comparator), a stable sort: s[i] comes after the elements that
\* compare below it and after the equal ones that stood before it
SortByLastSelected(parts, s) ==
    LET n == Len(s)
        Pos(i) == Cardinality({j \in 1..n :
                     \/ Compare(parts, s[j], s[i]) < 0
                     \/ (Compare(parts, s[j], s[i]) = 0 /\ j <= i)})
    IN  [k \in 1..n |-> s[CHOOSE i \in 1..n : Pos(i) = k]]

\* Participant.find(query): department, isActive and, for a meeting with a roster
\* that holds e-mails, email $in roster
FindPool(parts, m, dept) ==
    LET Match(p) == /\ p \in DOMAIN parts
                    /\ parts[p].department = dept
                    /\ parts[p].isActive
                    /\ (Roster(m) # {} => Email(p) \in Roster(m))
    IN  SelectSeq(PartOrder, Match)

\* a filter that takes the least recently selected half whoever was never selected
EligibleSeqHalfOnly(parts, pool, excl) ==
    IF excl
    THEN LET sorted == SortByLastSelected(parts, pool)
         IN  SubSeq(sorted, 1, CeilHalf(Len(sorted)))
    ELSE pool

\* a filter that ignores excludeRecentlySelected
EligibleSeqAll(parts, pool, excl) == pool

\* the recency filter of selectParticipant, lines 212-225
EligibleSeq(parts, pool, excl) ==
    IF excl
    THEN LET sorted == SortByLastSelected(parts, pool)
             NeverSel(p) == parts[p].lastSelected = Null
             neverSelected == SelectSeq(sorted, NeverSel)
         IN  IF Len(neverSelected) > 0
             THEN neverSelected
             ELSE SubSeq(sorted, 1, CeilHalf(Len(sorted)))
    ELSE pool

SeqSet(s) == {s[i] : i \in 1..Len(s)}

RECURSIVE SeqSum(_)
SeqSum(s) == IF s = <<>> THEN 0 ELSE s[1] + SeqSum(Tail(s))

RECURSIVE SeqMax(_)
SeqMax(s) == IF Len(s) = 1 THEN s[1]
             ELSE LET m == SeqMax(Tail(s)) IN IF s[1] > m THEN s[1] ELSE m

\* weights without the + 1: the most selected candidate weighs nothing
WeightsNoFloor(parts, el) ==
    LET maxSelections == SeqMax([i \in 1..Len(el) |-> parts[el[i]].selectionCount])
    IN  [i \in 1..Len(el) |-> maxSelections - parts[el[i]].selectionCount]

\* weights of the weighted method
Weights(parts, el) ==
    LET maxSelections == SeqMax([i \in 1..Len(el) |-> parts[el[i]].selectionCount])
    IN  [i \in 1..Len(el) |-> maxSelections - parts[el[i]].selectionCount + 1]

\* a walk that compares the draw with each weight instead of the running sum
WeightedPickNoSum(parts, el, r2) ==
    LET w == Weights(parts, el)
        Hit == {i \in 1..Len(el) : r2 <= 2 * w[i]}
    IN  IF Hit = {} THEN Missing
        ELSE el[CHOOSE i \in Hit : \A j \in Hit : i <= j]

\* the cumulative walk; the draw r = r2 / 2 lies in [0, totalWeight), in half units
WeightedPick(parts, el, r2) ==
    LET w == Weights(parts, el)
        Hit == {i \in 1..Len(el) : r2 <= 2 * SeqSum(SubSeq(w, 1, i))}
    IN  IF Hit = {} THEN Missing
        ELSE el[CHOOSE i \in Hit : \A j \in Hit : i <= j]

\* the participants a method can pick from the eligible sequence
PickSet(parts, el, method) ==
    IF method = "weighted"
    THEN {WeightedPick(parts, el, r2) : r2 \in 0..(2 * SeqSum(Weights(parts, el)) - 1)}
    ELSE {el[i] : i \in 1..Len(el)}

----------------------------------------------------------------------------
(* State *)

\* no SelectionRecord
NoRec == [id |-> 0, meetingId |-> Missing, participantId |-> Missing,
          department |-> Missing, selectedAt |-> Null]

\* the request in flight: its inputs, its position (pc) and its locals
Idle == [op |-> "none", pc |-> "idle", meetingId |-> Missing, department |-> Missing,
         participantId |-> Missing, method |-> Missing, excl |-> FALSE,
         pool |-> <<>>, eligible |-> <<>>, rec |-> NoRec, status |-> 0,
         at |-> "idle"]

\* ended tells how the handler's transaction ended, until endSession; calls counts
\* the handler's calls of commitTransaction and abortTransaction on its session
NoTx == [open |-> FALSE, records |-> {}, participants |-> <<>>, meetings |-> <<>>,
         ended |-> "none", calls |-> 0]

Aborted == [NoTx EXCEPT !.ended = "aborted", !.calls = 1]
Committed == [NoTx EXCEPT !.ended = "committed", !.calls = 1]

\* commitTransaction was called and threw, and the catch block then called
\* abortTransaction on the same session
AbortedAfterCommit == [Aborted EXCEPT !.calls = 2]

\* session.startTransaction(): the working copy starts as the committed data
StartTx == [open |-> TRUE, records |-> records, participants |-> participants,
            meetings |-> meetings, ended |-> "none", calls |-> 0]

Init ==
    /\ records = {}
    /\ participants = [p \in Parts |->
          [department |-> PartDepartment(p), isActive |-> TRUE, meetingId |-> PartMeeting(p),
           selectionCount |-> 0, lastSelected |-> Null]]
    /\ meetings = [m \in Meets |-> [totalSpins |-> 0, lastActivity |-> Null]]
    /\ now = 1
    /\ nextId = 1
    /\ req = Idle
    /\ tx = NoTx

\* a database of any four participants, active or not, selected at any time or never
FilterInit ==
    /\ records = {}
    /\ \E ls \in [AllParts -> {Null} \cup (1..MaxTime)], act \in [AllParts -> BOOLEAN] :
          participants = [p \in AllParts |->
             [department |-> PartDepartment(p), isActive |-> act[p],
              meetingId |-> PartMeeting(p),
              selectionCount |-> IF ls[p] = Null THEN 0 ELSE 1, lastSelected |-> ls[p]]]
    /\ meetings = [m \in Meets |-> [totalSpins |-> 0, lastActivity |-> Null]]
    /\ now = MaxTime
    /\ nextId = 1
    /\ req = Idle
    /\ tx = NoTx

\* meeting M with A and B never selected and C selected three times
ScenarioInit ==
    /\ records = {[id |-> i, meetingId |-> "M", participantId |-> "C",
                   department |-> "eng", selectedAt |-> 1] : i \in 1..3}
    /\ participants = [p \in ScenarioParts |->
          [department |-> "eng", isActive |-> TRUE, meetingId |-> Missing,
           selectionCount |-> IF p = "C" THEN 3 ELSE 0,
           lastSelected |-> IF p = "C" THEN 1 ELSE Null]]
    /\ meetings = [m \in Meets |->
          IF m = "M" THEN [totalSpins |-> 3, lastActivity |-> 1]
          ELSE [totalSpins |-> 0, lastActivity |-> Null]]
    /\ now = 1
    /\ nextId = 4
    /\ req = Idle
    /\ tx = NoTx

\* the clock moves on between any two steps
Tick ==
    /\ now < MaxTime
    /\ now' = now + 1
    /\ UNCHANGED <<records, participants, meetings, nextId, req, tx>>

\* the handler has sent its response: the operation, the status code and the
\* position it answered at remain
Done(r, code) == [Idle EXCEPT !.op = r.op, !.pc = "done", !.status = code, !.at = r.pc]

\* a catch block that commits what the transaction holds instead of aborting it
AbortCommitting(r, code) ==
    /\ req' = Done(r, code)
    /\ tx' = Committed
    /\ IF tx.open
       THEN /\ records' = tx.records
            /\ participants' = tx.participants
            /\ meetings' = tx.meetings
       ELSE UNCHANGED <<records, participants, meetings>>

\* a catch block that starts the failed request's writes again instead of answering
AbortRetrying(r, code) ==
    /\ req' = [r EXCEPT !.pc = "save"]
    /\ tx' = StartTx
    /\ UNCHANGED <<records, participants, meetings>>

\* abortTransaction + response: nothing of the working copy is kept; r.pc is where the
\* handler stood when it aborted
Abort(r, code) ==
    /\ req' = Done(r, code)
    /\ tx' = IF r.pc = "commit" THEN AbortedAfterCommit ELSE Aborted
    /\ UNCHANGED <<records, participants, meetings>>

\* a commit that publishes the inserted records and loses the counter updates
CommitTxRecordsOnly ==
    /\ records' = tx.records
    /\ UNCHANGED <<participants, meetings>>
    /\ tx' = Committed

\* commitTransaction: the working copy becomes the committed data, all at once
CommitTx ==
    /\ records' = tx.records
    /\ participants' = tx.participants
    /\ meetings' = tx.meetings
    /\ tx' = Committed

\* an update that sets lastSelected and leaves out the $inc
IncParticipantNoInc(parts, p) ==
    [parts EXCEPT ![p].lastSelected = now]

\* findByIdAndUpdate(p, {$inc: {selectionCount: 1}, $set: {lastSelected: new Date()}})
IncParticipant(parts, p) ==
    [parts EXCEPT ![p].selectionCount = @ + 1, ![p].lastSelected = now]

\* findByIdAndUpdate(m, {$inc: {totalSpins: 1}, $set: {lastActivity: new Date()}})
IncMeeting(meets, m) ==
    [meets EXCEPT ![m].totalSpins = @ + 1, ![m].lastActivity = now]

\* selectionRecord.save({session}): schema validation, then the insert
SaveRecord(rec, method) ==
    /\ method \in MethodEnum
    /\ tx' = [tx EXCEPT !.records = @ \cup {rec}]

----------------------------------------------------------------------------
(* selectParticipant *)

\* lines 165-292: open the transaction, validate, read the pool, filter, pick;
\* cap bounds the records the model creates
SelectBegin(m, d, excl, method, cap) ==
    LET r == [Idle EXCEPT !.op = "select", !.meetingId = m, !.method = method]
        pool == FindPool(participants, m, d)
        el == EligibleSeq(participants, pool, excl)
    IN  /\ req.pc = "idle"
        /\ UNCHANGED now
        /\ IF m = Missing \/ d = Missing
           THEN Abort(r, 400) /\ UNCHANGED nextId
           ELSE IF m \notin Meets
           THEN Abort(r, 404) /\ UNCHANGED nextId
           ELSE IF Len(pool) = 0
           THEN Abort(r, 404) /\ UNCHANGED nextId
           ELSE IF method = "manual"
           THEN /\ req' = [Done(r, 200) EXCEPT !.method = method, !.excl = excl,
                                                      !.pool = pool, !.eligible = el]
                /\ tx' = Committed
                /\ UNCHANGED <<records, participants, meetings, nextId>>
           ELSE \E sel \in PickSet(participants, el, method) :
                IF sel = Missing
                THEN Abort(r, 500) /\ UNCHANGED nextId
                ELSE /\ nextId <= cap
                     /\ req' = [r EXCEPT !.pc = "save", !.participantId = sel,
                                  !.rec = [id |-> nextId, meetingId |-> m,
                                           participantId |-> sel,
                                           department |-> participants[sel].department,
                                           selectedAt |-> now]]
                     /\ tx' = StartTx
                     /\ nextId' = nextId + 1
                     /\ UNCHANGED <<records, participants, meetings>>

\* a select request with any body
SelectStart ==
    \E m \in Meets \cup {Ghost, Missing}, d \in Depts \cup {Missing},
       excl \in BOOLEAN, method \in Methods :
        SelectBegin(m, d, excl, method, MaxRecords)

\* line 294
SelectSave ==
    /\ req.op = "select" /\ req.pc = "save"
    /\ SaveRecord(req.rec, req.method)
    /\ req' = [req EXCEPT !.pc = "updP", !.method = Missing]
    /\ UNCHANGED <<records, participants, meetings, now, nextId>>

\* lines 297-304
SelectUpdateParticipant ==
    /\ req.op = "select" /\ req.pc = "updP"
    /\ tx' = [tx EXCEPT !.participants = IncParticipant(@, req.participantId)]
    /\ req' = [req EXCEPT !.pc = "updM"]
    /\ UNCHANGED <<records, participants, meetings, now, nextId>>

\* lines 307-314
SelectUpdateMeeting ==
    /\ req.op = "select" /\ req.pc = "updM"
    /\ tx' = [tx EXCEPT !.meetings = IncMeeting(@, req.meetingId)]
    /\ req' = [req EXCEPT !.pc = "commit"]
    /\ UNCHANGED <<records, participants, meetings, now, nextId>>

\* line 316 and the response
SelectCommit ==
    /\ req.op = "select" /\ req.pc = "commit"
    /\ CommitTx
    /\ req' = Done(req, 200)
    /\ UNCHANGED <<now, nextId>>

\* lines 340-346: a write or the commit throws
SelectFail ==
    /\ req.op = "select" /\ req.pc \in {"save", "updP", "updM", "commit"}
    /\ Abort(req, 500)
    /\ UNCHANGED <<now, nextId>>

----------------------------------------------------------------------------
(* createSelectionRecord *)

\* lines 56-108: open the transaction, validate, read meeting and participant,
\* build the record
CreateStart ==
    /\ req.pc = "idle"
    /\ \E m \in Meets \cup {Ghost, Missing}, p \in Parts \cup {Ghost, Missing},
          hasName \in BOOLEAN, d \in Depts \cup {Missing}, method \in {"manual", "other"} :
        LET r == [Idle EXCEPT !.op = "create", !.meetingId = m, !.participantId = p,
                              !.method = method]
        IN  IF m = Missing \/ p = Missing \/ ~hasName
            THEN Abort(r, 400) /\ UNCHANGED nextId
            ELSE IF p \notin DOMAIN participants
            THEN Abort(r, 404) /\ UNCHANGED nextId
            ELSE /\ nextId <= MaxRecords
                 /\ req' = [r EXCEPT !.pc = "save",
                              !.rec = [id |-> nextId, meetingId |-> m, participantId |-> p,
                                       department |-> IF d # Missing THEN d
                                                      ELSE participants[p].department,
                                       selectedAt |-> now]]
                 /\ tx' = StartTx
                 /\ nextId' = nextId + 1
                 /\ UNCHANGED <<records, participants, meetings>>
    /\ UNCHANGED now

\* line 110
CreateSave ==
    /\ req.op = "create" /\ req.pc = "save"
    /\ SaveRecord(req.rec, req.method)
    /\ req' = [req EXCEPT !.pc = "updP", !.method = Missing]
    /\ UNCHANGED <<records, participants, meetings, now, nextId>>

\* lines 113-120, and the test of line 123
CreateUpdateParticipant ==
    /\ req.op = "create" /\ req.pc = "updP"
    /\ tx' = [tx EXCEPT !.participants = IncParticipant(@, req.participantId)]
    /\ req' = [req EXCEPT !.pc = IF req.meetingId \in Meets THEN "updM" ELSE "commit"]
    /\ UNCHANGED <<records, participants, meetings, now, nextId>>

\* lines 124-131
CreateUpdateMeeting ==
    /\ req.op = "create" /\ req.pc = "updM"
    /\ tx' = [tx EXCEPT !.meetings = IncMeeting(@, req.meetingId)]
    /\ req' = [req EXCEPT !.pc = "commit"]
    /\ UNCHANGED <<records, participants, meetings, now, nextId>>

\* line 134 and the response
CreateCommit ==
    /\ req.op = "create" /\ req.pc = "commit"
    /\ CommitTx
    /\ req' = Done(req, 201)
    /\ UNCHANGED <<now, nextId>>

\* lines 152-158: a write or the commit throws
CreateFail ==
    /\ req.op = "create" /\ req.pc \in {"save", "updP", "updM", "commit"}
    /\ Abort(req, 500)
    /\ UNCHANGED <<now, nextId>>

----------------------------------------------------------------------------
(* clearSelectionHistory *)

\* a filter that forgets the scope: every record matches
RecordMatchesAll(rec, d, m) == TRUE

\* the filter built from req.query: each given field must match
RecordMatches(rec, d, m) ==
    /\ (d # Missing => rec.department = d)
    /\ (m # Missing => rec.meetingId = m)

\* participantFilter: the participant's own department and meetingId fields
ParticipantMatches(part, d, m) ==
    /\ (d # Missing => part.department = d)
    /\ (m # Missing => part.meetingId = m)

\* lines 353-364
ClearStart ==
    /\ req.pc = "idle"
    /\ \E d \in Depts \cup {Missing}, m \in Meets \cup {Missing} :
        req' = [Idle EXCEPT !.op = "clear", !.pc = "delRec", !.department = d,
                            !.meetingId = m]
    /\ tx' = StartTx
    /\ UNCHANGED <<records, participants, meetings, now, nextId>>

\* lines 367-370: SelectionRecord.deleteMany(filter)
ClearDeleteRecords ==
    /\ req.op = "clear" /\ req.pc = "delRec"
    /\ tx' = [tx EXCEPT !.records =
                {r \in @ : ~RecordMatches(r, req.department, req.meetingId)}]
    /\ req' = [req EXCEPT !.pc = "resetP"]
    /\ UNCHANGED <<records, participants, meetings, now, nextId>>

\* lines 373-389: Participant.updateMany(participantFilter, reset)
ClearResetParticipants ==
    /\ req.op = "clear" /\ req.pc = "resetP"
    /\ tx' = [tx EXCEPT !.participants = [p \in DOMAIN @ |->
                IF ParticipantMatches(@[p], req.department, req.meetingId)
                THEN [@[p] EXCEPT !.selectionCount = 0, !.lastSelected = Null]
                ELSE @[p]]]
    /\ req' = [req EXCEPT !.pc = IF req.meetingId # Missing THEN "resetM" ELSE "commit"]
    /\ UNCHANGED <<records, participants, meetings, now, nextId>>

\* lines 392-402: Meeting.findByIdAndUpdate(meetingId, reset)
ClearResetMeeting ==
    /\ req.op = "clear" /\ req.pc = "resetM"
    /\ tx' = [tx EXCEPT !.meetings = [m \in Meets |->
                IF m = req.meetingId
                THEN [@[m] EXCEPT !.totalSpins = 0, !.lastActivity = Null]
                ELSE @[m]]]
    /\ req' = [req EXCEPT !.pc = "commit"]
    /\ UNCHANGED <<records, participants, meetings, now, nextId>>

\* line 404 and the response
ClearCommit ==
    /\ req.op = "clear" /\ req.pc = "commit"
    /\ CommitTx
    /\ req' = Done(req, 200)
    /\ UNCHANGED <<now, nextId>>

\* lines 412-418: a write or the commit throws
ClearFail ==
    /\ req.op = "clear" /\ req.pc \in {"delRec", "resetP", "resetM", "commit"}
    /\ Abort(req, 500)
    /\ UNCHANGED <<now, nextId>>

\* finally: session.endSession(); the handler has answered and the next request
\* may start
Return ==
    /\ req.pc = "done"
    /\ req' = Idle
    /\ tx' = NoTx
    /\ UNCHANGED <<records, participants, meetings, now, nextId>>

Next ==
    \/ Tick
    \/ SelectStart
    \/ SelectSave
    \/ SelectUpdateParticipant
    \/ SelectUpdateMeeting
    \/ SelectCommit
    \/ SelectFail
    \/ CreateStart
    \/ CreateSave
    \/ CreateUpdateParticipant
    \/ CreateUpdateMeeting
    \/ CreateCommit
    \/ CreateFail
    \/ ClearStart
    \/ ClearDeleteRecords
    \/ ClearResetParticipants
    \/ ClearResetMeeting
    \/ ClearCommit
    \/ ClearFail
    \/ Return

Spec == Init /\ [][Next]_vars

----------------------------------------------------------------------------
(* The write path together with the participant and meeting updates of
   controllers/participants.ts and controllers/meetings.ts.  These handlers open no
   transaction: findByIdAndUpdate(id, req.body) is one write to the collection.
   Requests are served one at a time. *)

\* updateParticipant with body {isActive: b}; 404 when the id names nobody
UpdateParticipant ==
    /\ req.pc = "idle"
    /\ \E p \in Parts \cup {Ghost}, b \in BOOLEAN :
          IF p \in DOMAIN participants
          THEN participants' = [participants EXCEPT ![p].isActive = b]
          ELSE UNCHANGED participants
    /\ UNCHANGED <<records, meetings, now, nextId, req, tx>>

\* updateMeeting with body {statistics: {totalSpins: 0}}; 404 when the id names nothing
UpdateMeeting ==
    /\ req.pc = "idle"
    /\ \E m \in Meets \cup {Ghost} :
          IF m \in Meets
          THEN meetings' = [meetings EXCEPT ![m].totalSpins = 0]
          ELSE UNCHANGED meetings
    /\ UNCHANGED <<records, participants, now, nextId, req, tx>>

\* addParticipantsToMeeting: the uploaded file's rows (name, email) are upserted into
\* the participants with $set {name, role, email, selectionCount: 0}, before the
\* meeting is looked up; then the rows join the meeting's roster.  The file uploaded
\* here lists members the roster of R already has, so the roster stays as it is;
\* for an id that names no meeting the answer is 404, after the upsert.
UploadRoster ==
    /\ req.pc = "idle"
    /\ \E m \in {"R", Ghost}, rows \in SUBSET (Roster("R") \cap Parts) :
          /\ rows # {}
          /\ participants' = [p \in DOMAIN participants |->
                IF Email(p) \in rows
                THEN [participants[p] EXCEPT !.selectionCount = 0]
                ELSE participants[p]]
    /\ UNCHANGED <<records, meetings, now, nextId, req, tx>>

\* every request of the write path and the two updates; the clock stands still (no
\* Tick): the timestamps play no part in what becomes of a committed record
UpdateNext ==
    \/ SelectStart
    \/ SelectSave
    \/ SelectUpdateParticipant
    \/ SelectUpdateMeeting
    \/ SelectCommit
    \/ SelectFail
    \/ CreateStart
    \/ CreateSave
    \/ CreateUpdateParticipant
    \/ CreateUpdateMeeting
    \/ CreateCommit
    \/ CreateFail
    \/ ClearStart
    \/ ClearDeleteRecords
    \/ ClearResetParticipants
    \/ ClearResetMeeting
    \/ ClearCommit
    \/ ClearFail
    \/ Return
    \/ UpdateParticipant
    \/ UpdateMeeting
    \/ UploadRoster

UpdateSpec == Init /\ [][UpdateNext]_vars

----------------------------------------------------------------------------
(* The eligibility filter alone: the manual path of select answers with the pool's
   eligible sequence and writes nothing *)

FilterApply ==
    \E m \in Meets, excl \in BOOLEAN : SelectBegin(m, "eng", excl, "manual", MaxRecords)

FilterSpec == FilterInit /\ [][FilterApply]_vars

----------------------------------------------------------------------------
(* The recency filter seen with its request: the body of a select is read into the
   locals of lines 169-176, then lines 178-225 run and the manual path shows the
   pool and what the filter left of it *)

RecencyReceive ==
    /\ req = Idle
    /\ \E m \in Meets, excl \in BOOLEAN :
          req' = [Idle EXCEPT !.meetingId = m, !.department = "eng", !.excl = excl]
    /\ UNCHANGED <<records, participants, meetings, now, nextId, tx>>

RecencyApply ==
    /\ req.meetingId # Missing
    /\ SelectBegin(req.meetingId, req.department, req.excl, "manual", MaxRecords)

RecencyNext == RecencyReceive \/ RecencyApply \/ Return

RecencySpec == FilterInit /\ [][RecencyNext]_vars

----------------------------------------------------------------------------
(* The scenario of meeting M: repeated select requests with
   excludeRecentlySelected = true and method = random, one after the other *)

ScenarioStart == SelectBegin("M", "eng", TRUE, "random", 3 + ScenarioRuns)

ScenarioNext ==
    \/ Tick
    \/ ScenarioStart
    \/ SelectSave
    \/ SelectUpdateParticipant
    \/ SelectUpdateMeeting
    \/ SelectCommit
    \/ SelectFail
    \/ Return

ScenarioSpec == ScenarioInit /\ [][ScenarioNext]_vars

----------------------------------------------------------------------------
(* The weighted pick alone (lines 230-247) over the pools of three participants with
   any selectionCounts of CountChoices, any of them active *)

CountChoices == {0, 5, 10}

WeightedInit ==
    /\ records = {}
    /\ \E cnt \in [ScenarioParts -> CountChoices], act \in [ScenarioParts -> BOOLEAN] :
          participants = [p \in ScenarioParts |->
             [department |-> PartDepartment(p), isActive |-> act[p],
              meetingId |-> PartMeeting(p),
              selectionCount |-> cnt[p], lastSelected |-> Null]]
    /\ meetings = [m \in Meets |-> [totalSpins |-> 0, lastActivity |-> Null]]
    /\ now = 1
    /\ nextId = 1
    /\ req = Idle
    /\ tx = NoTx

\* Math.random() * totalWeight falls on r2 / 2; the walk's result is kept with the
\* weights and the draw it came from
WeightedApply ==
    LET el == EligibleSeq(participants, FindPool(participants, "M", "eng"), FALSE)
        w == Weights(participants, el)
    IN  /\ req.pc = "idle"
        /\ Len(el) > 0
        /\ \E r2 \in 0..(2 * SeqSum(w) - 1) :
              req' = [op |-> "weighted", pc |-> "done", eligible |-> el, weights |-> w,
                      draw |-> r2, participantId |-> WeightedPick(participants, el, r2)]
        /\ UNCHANGED <<records, participants, meetings, now, nextId, tx>>

WeightedNext == WeightedApply \/ Return

WeightedSpec == WeightedInit /\ [][WeightedNext]_vars

----------------------------------------------------------------------------
(* The pick alone (lines 203-266), methods random and weighted, after the recency
   filter: three active participants, each never selected or selected 5 or 10 times,
   the last time at any moment *)

PickInit ==
    /\ records = {}
    /\ \E cnt \in [ScenarioParts -> CountChoices],
          ls \in [ScenarioParts -> {Null} \cup (1..MaxTime)] :
          /\ \A p \in ScenarioParts : (cnt[p] = 0) <=> (ls[p] = Null)
          /\ participants = [p \in ScenarioParts |->
                [department |-> PartDepartment(p), isActive |-> TRUE,
                 meetingId |-> PartMeeting(p),
                 selectionCount |-> cnt[p], lastSelected |-> ls[p]]]
    /\ meetings = [m \in Meets |-> [totalSpins |-> 0, lastActivity |-> Null]]
    /\ now = MaxTime
    /\ nextId = 1
    /\ req = Idle
    /\ tx = NoTx

\* the value of selectedParticipant at line 268, kept with the eligible sequence it
\* was drawn from
PickApply ==
    /\ req.pc = "idle"
    /\ \E m \in Meets, excl \in BOOLEAN, method \in {"random", "weighted"} :
          LET pool == FindPool(participants, m, "eng")
              el == EligibleSeq(participants, pool, excl)
          IN  /\ Len(pool) > 0
              /\ \E sel \in PickSet(participants, el, method) :
                    req' = [op |-> "pick", pc |-> "done", method |-> method,
                            excl |-> excl, eligible |-> el, participantId |-> sel]
    /\ UNCHANGED <<records, participants, meetings, now, nextId, tx>>

PickNext == PickApply \/ Return

PickSpec == PickInit /\ [][PickNext]_vars

----------------------------------------------------------------------------
(* The candidate pool alone (lines 192-209): four participants of any department,
   active or not; a select request arrives (its body is read into the locals of
   lines 169-176) and is answered by the manual path, which shows the pool *)

PoolInit ==
    /\ records = {}
    /\ \E dep \in [AllParts -> Depts], act \in [AllParts -> BOOLEAN] :
          participants = [p \in AllParts |->
             [department |-> dep[p], isActive |-> act[p], meetingId |-> PartMeeting(p),
              selectionCount |-> 0, lastSelected |-> Null]]
    /\ meetings = [m \in Meets |-> [totalSpins |-> 0, lastActivity |-> Null]]
    /\ now = 1
    /\ nextId = 1
    /\ req = Idle
    /\ tx = NoTx

\* the request body: meetingId and department
PoolReceive ==
    /\ req = Idle
    /\ \E m \in Meets, d \in Depts :
          req' = [Idle EXCEPT !.meetingId = m, !.department = d]
    /\ UNCHANGED <<records, participants, meetings, now, nextId, tx>>

PoolApply ==
    /\ req.meetingId # Missing
    /\ SelectBegin(req.meetingId, req.department, FALSE, "manual", MaxRecords)

PoolNext == PoolReceive \/ PoolApply \/ Return

PoolSpec == PoolInit /\ [][PoolNext]_vars

----------------------------------------------------------------------------
(* AnalyticsService over a history the write path has left: up to MaxSlots records
   of A and B, the participants' counters and the meetings' statistics agreeing with
   them.  Participants are deleted (deleteParticipant) and the analytics queried. *)

\* Math.round(n / d) for d > 0: floor(n / d + 1/2)
Round(n, d) == (2 * n + d) \div (2 * d)

\* the length of the engagement window, thirty days, in clock units
ThirtyDays == 1

LatestOf(recs) ==
    IF recs = {} THEN Null
    ELSE CHOOSE t \in {r.selectedAt : r \in recs} : \A r \in recs : r.selectedAt <= t

AnalyticsInit ==
    /\ \E slot \in [1..MaxSlots -> {NoRec} \cup
                        [id : {0}, meetingId : Meets, participantId : Parts,
                         department : {"eng"}, selectedAt : 1..MaxTime]] :
          records = {[slot[i] EXCEPT !.id = i] : i \in {j \in 1..MaxSlots : slot[j] # NoRec}}
    /\ participants = [p \in Parts |->
          LET mine == {r \in records : r.participantId = p}
          IN  [department |-> PartDepartment(p), isActive |-> TRUE,
               meetingId |-> PartMeeting(p),
               selectionCount |-> Cardinality(mine), lastSelected |-> LatestOf(mine)]]
    /\ meetings = [m \in Meets |->
          LET here == {r \in records : r.meetingId = m}
          IN  [totalSpins |-> Cardinality(here), lastActivity |-> LatestOf(here)]]
    /\ now = MaxTime
    /\ nextId = MaxSlots + 1
    /\ req = Idle
    /\ tx = NoTx

\* deleteParticipant: findByIdAndDelete; the participant's records stay
DeleteParticipant ==
    /\ req.pc = "idle"
    /\ \E p \in Parts \cup {Ghost} :
          participants' = [q \in DOMAIN participants \ {p} |-> participants[q]]
    /\ UNCHANGED <<records, meetings, now, nextId, req, tx>>

\* getSelectionFairness(meetingId?): the records of the scope grouped by participantId
GetSelectionFairness(recs, m) ==
    LET matched == {r \in recs : m # Missing => r.meetingId = m}
        groups == {r.participantId : r \in matched}
        count(g) == Cardinality({r \in matched : r.participantId = g})
        totalParticipants == Cardinality(groups)
        participantsSelected == Cardinality({g \in groups : count(g) > 0})
    IN  IF totalParticipants = 0
        THEN [fairnessScore |-> 0, participantsSelectedAtLeastOnce |-> 0,
              totalParticipants |-> 0]
        ELSE [fairnessScore |-> Round(100 * participantsSelected, totalParticipants),
              participantsSelectedAtLeastOnce |-> participantsSelected,
              totalParticipants |-> totalParticipants]

\* GET /selection-fairness
FairnessQuery ==
    /\ req.pc = "idle"
    /\ \E m \in Meets \cup {Missing} :
          req' = [op |-> "fairness", pc |-> "done", meetingId |-> m,
                  result |-> GetSelectionFairness(records, m)]
    /\ UNCHANGED <<records, participants, meetings, now, nextId, tx>>

\* getEngagementScore; dn / 2 is Math.min(1, averageSessionDuration / 60), which the
\* durations of the records (0 to 60000 ms by the schema) put between 0 and 1; the
\* overall score is kept in tenths
GetEngagementScore(parts, recs, clock, dn) ==
    LET thirtyDaysAgo == clock - ThirtyDays
        totalParticipants == Cardinality(DOMAIN parts)
        activeParticipants == Cardinality({p \in DOMAIN parts :
                                 /\ parts[p].lastSelected # Null
                                 /\ parts[p].lastSelected >= thirtyDaysAgo})
        recent == {r \in recs : r.selectedAt >= thirtyDaysAgo}
        repeatUsers == Cardinality({g \in {r.participantId : r \in recent} :
                          Cardinality({r \in recent : r.participantId = g}) > 1})
        t == IF totalParticipants > 0 THEN totalParticipants ELSE 1
        a == IF activeParticipants > 0 THEN activeParticipants ELSE 1
        active == IF totalParticipants > 0 THEN activeParticipants ELSE 0
        repeat == IF activeParticipants > 0 THEN repeatUsers ELSE 0
        \* ten times (participation * 4 + repeat usage * 3 + duration * 3), as n / d
        n == 10 * (8 * active * a + 6 * repeat * t + 3 * dn * t * a)
        d == 2 * t * a
    IN  [overallTenths |-> IF n >= 100 * d THEN 100 ELSE Round(n, d),
         participationRate |-> Round(100 * active, t),
         repeatUsageRate |-> Round(100 * repeat, a)]

\* GET /engagement-score
EngagementQuery ==
    /\ req.pc = "idle"
    /\ \E dn \in 0..2 :
          req' = [op |-> "engagement", pc |-> "done", meetingId |-> Missing,
                  result |-> GetEngagementScore(participants, records, now, dn)]
    /\ UNCHANGED <<records, participants, meetings, now, nextId, tx>>

AnalyticsNext == DeleteParticipant \/ FairnessQuery \/ EngagementQuery \/ Return

AnalyticsSpec == AnalyticsInit /\ [][AnalyticsNext]_vars

----------------------------------------------------------------------------
(* calculateTrend alone, over every pair of weekly counts up to MaxMetric *)

\* the text `${sign}${Math.round(change)}%` as <<what stands before the digits,
\* the digits' value>>: String(n) puts "-" before a negative n and nothing before
\* 0, -0 or a positive n
TrendText(sign, rounded) ==
    IF rounded < 0
    THEN <<IF sign = "+" THEN "+-" ELSE "-", -rounded>>
    ELSE <<sign, rounded>>

\* calculateTrend(current, previous)
CalculateTrend(current, previous) ==
    IF previous = 0
    THEN IF current > 0 THEN <<"+", 100>> ELSE <<"+", 0>>
    ELSE LET change100 == (current - previous) * 100
             sign == IF change100 >= 0 THEN "+" ELSE ""
         IN  TrendText(sign, Round(change100, previous))

TrendInit ==
    /\ records = {}
    /\ participants = [p \in Parts |->
          [department |-> PartDepartment(p), isActive |-> TRUE, meetingId |-> PartMeeting(p),
           selectionCount |-> 0, lastSelected |-> Null]]
    /\ meetings = [m \in Meets |-> [totalSpins |-> 0, lastActivity |-> Null]]
    /\ now = 1
    /\ nextId = 1
    /\ \E c \in 0..MaxMetric, p \in 0..MaxMetric :
          req = [op |-> "trend", pc |-> "stats", current |-> c, previous |-> p,
                 result |-> <<>>]
    /\ tx = NoTx

\* getWeeklyTrends, line 79: the trend of this week's and last week's spins
TrendApply ==
    /\ req.op = "trend" /\ req.pc = "stats"
    /\ req' = [req EXCEPT !.pc = "done",
                          !.result = CalculateTrend(req.current, req.previous)]
    /\ UNCHANGED <<records, participants, meetings, now, nextId, tx>>

TrendSpec == TrendInit /\ [][TrendApply]_vars

----------------------------------------------------------------------------
(* Concurrent requests.  Each of MaxProcs handlers serves one select or
   recordSelection; here req and tx hold one entry per handler.  Every read and write
   of the handlers carries the session, so each works on the snapshot its
   transaction took; a write to a document that another open transaction has
   written, or that was committed after the snapshot, throws a write conflict,
   which the catch block answers by abortTransaction and 500.  The commit publishes
   the documents the transaction wrote. *)

Procs == 1..MaxProcs

\* a database without write conflicts: every write goes through
NoConflict(i, coll, id) == FALSE

\* the write of handler i to document id of collection coll meets a write conflict
Conflicts(i, coll, id) ==
    \/ \E j \in Procs \ {i} :
          /\ tx[j].open
          /\ \/ coll = "participants" /\ req[j].pc \in {"updM", "commit"}
                                        /\ req[j].participantId = id
             \/ coll = "meetings" /\ req[j].pc = "commit" /\ req[j].meetingId = id
    \/ coll = "participants" /\ participants[id] # tx[i].participants[id]
    \/ coll = "meetings" /\ meetings[id] # tx[i].meetings[id]

ConcInit ==
    /\ records = {}
    /\ participants = [p \in Parts |->
          [department |-> PartDepartment(p), isActive |-> TRUE, meetingId |-> PartMeeting(p),
           selectionCount |-> 0, lastSelected |-> Null]]
    /\ meetings = [m \in Meets |-> [totalSpins |-> 0, lastActivity |-> Null]]
    /\ now = 1
    /\ nextId = 1
    /\ req = [i \in Procs |-> Idle]
    /\ tx = [i \in Procs |-> NoTx]

\* handler i answers with code; the participant and the meeting of the request stay
\* on the answer
ConcDone(i, code, outcome) ==
    /\ req' = [req EXCEPT ![i] = [@ EXCEPT !.pc = "done", !.status = code,
                                            !.at = req[i].pc]]
    /\ tx' = [tx EXCEPT ![i] = outcome]

\* select {meetingId: m, department: eng}, excludeRecentlySelected and method at their
\* defaults (true, random): lines 165-292 on the transaction's snapshot; the new
\* record's _id is told apart by the handler that made it
ConcSelectStart(i) ==
    /\ req[i].pc = "idle"
    /\ \E m \in Meets :
          LET pool == FindPool(participants, m, "eng")
              el == EligibleSeq(participants, pool, TRUE)
          IN  /\ Len(pool) > 0
              /\ \E sel \in PickSet(participants, el, "random") :
                    req' = [req EXCEPT ![i] =
                       [Idle EXCEPT !.op = "select", !.pc = "save", !.meetingId = m,
                                    !.participantId = sel,
                                    !.rec = [id |-> i, meetingId |-> m,
                                             participantId |-> sel,
                                             department |-> participants[sel].department,
                                             selectedAt |-> now]]]
    /\ tx' = [tx EXCEPT ![i] = StartTx]
    /\ UNCHANGED <<records, participants, meetings, now, nextId>>

\* recordSelection {meetingId: m, participantId: p, participantName}: lines 56-108
ConcCreateStart(i) ==
    /\ req[i].pc = "idle"
    /\ \E m \in Meets, p \in Parts :
          req' = [req EXCEPT ![i] =
             [Idle EXCEPT !.op = "create", !.pc = "save", !.meetingId = m,
                          !.participantId = p,
                          !.rec = [id |-> i, meetingId |-> m, participantId |-> p,
                                   department |-> participants[p].department,
                                   selectedAt |-> now]]]
    /\ tx' = [tx EXCEPT ![i] = StartTx]
    /\ UNCHANGED <<records, participants, meetings, now, nextId>>

\* lines 294 / 110: the insert of a new document meets no conflict
ConcSave(i) ==
    /\ req[i].pc = "save"
    /\ tx' = [tx EXCEPT ![i].records = @ \cup {req[i].rec}]
    /\ req' = [req EXCEPT ![i].pc = "updP"]
    /\ UNCHANGED <<records, participants, meetings, now, nextId>>

\* lines 297-304 / 113-120
ConcUpdateParticipant(i) ==
    /\ req[i].pc = "updP"
    /\ IF Conflicts(i, "participants", req[i].participantId)
       THEN ConcDone(i, 500, Aborted)
       ELSE /\ tx' = [tx EXCEPT ![i].participants = IncParticipant(@, req[i].participantId)]
            /\ req' = [req EXCEPT ![i].pc = "updM"]
    /\ UNCHANGED <<records, participants, meetings, now, nextId>>

\* lines 307-314 / 124-131
ConcUpdateMeeting(i) ==
    /\ req[i].pc = "updM"
    /\ IF Conflicts(i, "meetings", req[i].meetingId)
       THEN ConcDone(i, 500, Aborted)
       ELSE /\ tx' = [tx EXCEPT ![i].meetings = IncMeeting(@, req[i].meetingId)]
            /\ req' = [req EXCEPT ![i].pc = "commit"]
    /\ UNCHANGED <<records, participants, meetings, now, nextId>>

\* lines 316 / 134: the documents the transaction wrote become the committed ones
ConcCommit(i) ==
    /\ req[i].pc = "commit"
    /\ records' = records \cup {req[i].rec}
    /\ participants' = [participants EXCEPT
                           ![req[i].participantId] = tx[i].participants[req[i].participantId]]
    /\ meetings' = [meetings EXCEPT ![req[i].meetingId] = tx[i].meetings[req[i].meetingId]]
    /\ ConcDone(i, 200, Committed)
    /\ UNCHANGED <<now, nextId>>

\* lines 340-346 / 152-158: a write or the commit throws for another reason
ConcFail(i) ==
    /\ req[i].pc \in {"save", "updP", "updM", "commit"}
    /\ ConcDone(i, 500, IF req[i].pc = "commit" THEN AbortedAfterCommit ELSE Aborted)
    /\ UNCHANGED <<records, participants, meetings, now, nextId>>

\* the clock stands still while the requests overlap
ConcNext ==
    \/ \E i \in Procs : ConcSelectStart(i)
    \/ \E i \in Procs : ConcCreateStart(i)
    \/ \E i \in Procs : ConcSave(i)
    \/ \E i \in Procs : ConcUpdateParticipant(i)
    \/ \E i \in Procs : ConcUpdateMeeting(i)
    \/ \E i \in Procs : ConcCommit(i)
    \/ \E i \in Procs : ConcFail(i)

ConcSpec == ConcInit /\ [][ConcNext]_vars

----------------------------------------------------------------------------
(* Repeated selects on a fixed pool, followed for ever.  The filter reads lastSelected
   only by comparing (lines 213-218), so the times are kept as their ranks: the order
   and the ties between the participants' lastSelected and the clock are those of the
   real times, and the state space is finite.  The records and the counters, which
   grow without bound and which the filter does not read, stay as they are. *)

\* the rank of time t among the times in use
RankOf(parts, clock, t) ==
    Cardinality({u \in {parts[p].lastSelected : p \in DOMAIN parts} \cup {clock} :
                    u # Null /\ u <= t})

RankTimes(parts, clock) ==
    [p \in DOMAIN parts |->
        IF parts[p].lastSelected = Null THEN parts[p]
        ELSE [parts[p] EXCEPT !.lastSelected = RankOf(parts, clock, @)]]

\* the pool of the run: meeting M, department eng
LivePool == FindPool(participants, "M", "eng")
LiveEligible == SeqSet(EligibleSeq(participants, LivePool, TRUE))

LiveInit ==
    /\ records = {}
    /\ participants = [p \in AllParts |->
          [department |-> PartDepartment(p), isActive |-> TRUE, meetingId |-> PartMeeting(p),
           selectionCount |-> 0, lastSelected |-> Null]]
    /\ meetings = [m \in Meets |-> [totalSpins |-> 0, lastActivity |-> Null]]
    /\ now = 1
    /\ nextId = 1
    /\ req = Idle
    /\ tx = NoTx

\* a successful select, excludeRecentlySelected = true: any eligible participant is
\* picked and its lastSelected becomes the time of the update (lines 297-304)
LiveSelect ==
    /\ \E sel \in PickSet(participants, EligibleSeq(participants, LivePool, TRUE), "random") :
          LET after == [participants EXCEPT ![sel].lastSelected = now]
          IN  /\ participants' = RankTimes(after, now)
              /\ now' = RankOf(after, now, now)
    /\ UNCHANGED <<records, meetings, nextId, req, tx>>

\* the clock passes the latest lastSelected
LiveTick ==
    /\ \E p \in DOMAIN participants : participants[p].lastSelected = now
    /\ now' = RankOf(participants, now + 1, now + 1)
    /\ participants' = RankTimes(participants, now + 1)
    /\ UNCHANGED <<records, meetings, nextId, req, tx>>

LiveNext == LiveSelect \/ LiveTick

\* select requests keep coming and time keeps passing
LiveSpec == LiveInit /\ [][LiveNext]_vars /\ WF_vars(LiveSelect) /\ WF_vars(LiveTick)

----------------------------------------------------------------------------
(* ExportService: createExportJob saves an ExportJob and starts processExportJob
   without awaiting it.  In this specification records is the ExportJob collection
   and req[i] is the call of createExportJob that made job i together with the
   background run of processExportJob(i): its position, the document it holds in
   memory and the message of the error it caught.  Any call to the database or
   the file system either succeeds or throws.  Jobs are not deleted while they are
   processed (they expire after 24 hours). *)

ExportTypes == {"meeting", "analytics", "participants", "teams"}
ExportFormats == {"json", "csv", "excel"}

NoJob == [id |-> 0, type |-> Missing, format |-> Missing, status |-> Missing,
          downloadUrl |-> Missing, error |-> Missing]

\* ExportJob.findById(id)
JobOf(id) == CHOOSE j \in records : j.id = id

\* job.save(): the stored document becomes the one in memory
SaveJob(job) == records' = {j \in records : j.id # job.id} \cup {job}

\* lines 632-633
MarkCompleted(job) == [job EXCEPT !.status = "completed", !.downloadUrl = "url"]

\* lines 642-643
MarkFailed(job, message) == [job EXCEPT !.status = "failed", !.error = message]

ExportInit ==
    /\ records = {}
    /\ participants = [p \in Parts |->
          [department |-> PartDepartment(p), isActive |-> TRUE, meetingId |-> PartMeeting(p),
           selectionCount |-> 0, lastSelected |-> Null]]
    /\ meetings = [m \in Meets |-> [totalSpins |-> 0, lastActivity |-> Null]]
    /\ now = 1
    /\ nextId = 1
    /\ req = <<>>
    /\ tx = NoTx

\* the run of processExportJob moves to pc; a throw carries its message to the catch
ExportGoto(i, pc, job, message) ==
    req' = [req EXCEPT ![i] = [@ EXCEPT !.pc = pc, !.job = job, !.message = message]]

\* lines 561-589: new ExportJob (its _id is made here), save, start the processing,
\* return the document; or the save throws and the error is passed on
CreateExportJob ==
    /\ nextId <= MaxJobs
    /\ \E type \in ExportTypes, format \in ExportFormats, saved \in BOOLEAN :
          LET exportJob == [id |-> nextId, type |-> type, format |-> format,
                            status |-> "pending", downloadUrl |-> Missing,
                            error |-> Missing]
          IN  IF saved
              THEN /\ records' = records \cup {exportJob}
                   /\ req' = Append(req, [pc |-> "find", returned |-> exportJob,
                                          job |-> NoJob, message |-> Missing])
              ELSE /\ records' = records
                   /\ req' = Append(req, [pc |-> "thrown", returned |-> NoJob,
                                          job |-> NoJob, message |-> "save"])
    /\ nextId' = nextId + 1
    /\ UNCHANGED <<participants, meetings, now, tx>>

\* lines 596-599
ProcessFind(i) ==
    /\ req[i].pc = "find"
    /\ \/ ExportGoto(i, "markProcessing", JobOf(i), Missing)
       \/ ExportGoto(i, "catch", NoJob, "find")
    /\ UNCHANGED <<records, participants, meetings, now, nextId, tx>>

\* lines 602-603
ProcessMarkProcessing(i) ==
    /\ req[i].pc = "markProcessing"
    /\ LET job == [req[i].job EXCEPT !.status = "processing"]
       IN  \/ SaveJob(job) /\ ExportGoto(i, "work", job, Missing)
           \/ records' = records /\ ExportGoto(i, "catch", job, "save")
    /\ UNCHANGED <<participants, meetings, now, nextId, tx>>

\* lines 605-629: read the data, generate the file
ProcessWork(i) ==
    /\ req[i].pc = "work"
    /\ \/ ExportGoto(i, "markCompleted", req[i].job, Missing)
       \/ ExportGoto(i, "catch", req[i].job, "generate")
    /\ UNCHANGED <<records, participants, meetings, now, nextId, tx>>

\* lines 631-634
ProcessMarkCompleted(i) ==
    /\ req[i].pc = "markCompleted"
    /\ LET job == MarkCompleted(req[i].job)
       IN  \/ SaveJob(job) /\ ExportGoto(i, "finished", job, Missing)
           \/ records' = records /\ ExportGoto(i, "catch", job, "save")
    /\ UNCHANGED <<participants, meetings, now, nextId, tx>>

\* lines 636-645: the job is read again and marked failed; if this read or
\* this save throws, the run ends with the job as it was
ProcessCatch(i) ==
    /\ req[i].pc = "catch"
    /\ LET job == MarkFailed(JobOf(i), req[i].message)
       IN  \/ SaveJob(job) /\ ExportGoto(i, "finished", job, req[i].message)
           \/ records' = records /\ ExportGoto(i, "thrown", job, req[i].message)
    /\ UNCHANGED <<participants, meetings, now, nextId, tx>>

ExportNext ==
    \/ CreateExportJob
    \/ \E i \in DOMAIN req : ProcessFind(i)
    \/ \E i \in DOMAIN req : ProcessMarkProcessing(i)
    \/ \E i \in DOMAIN req : ProcessWork(i)
    \/ \E i \in DOMAIN req : ProcessMarkCompleted(i)
    \/ \E i \in DOMAIN req : ProcessCatch(i)

ExportSpec == ExportInit /\ [][ExportNext]_vars

----------------------------------------------------------------------------
(* What the handlers promise, over the committed collections *)

CountOf(recs, p) == Cardinality({r \in recs : r.participantId = p})
SpinsOf(recs, m) == Cardinality({r \in recs : r.meetingId = m})

\* this step is the successful commit of a request of kind op
Commits(op) == req.op = op /\ req.pc = "commit" /\ req'.pc = "done" /\ req'.status \in {200, 201}

\* C1: a select (random or weighted) that succeeds adds exactly one SelectionRecord,
\* for the returned participant and the requested meeting, adds 1 to that
\* participant's selectionCount and to that meeting's totalSpins, and changes no other
\* participant's selectionCount and no other meeting's totalSpins.
C1_SelectAddsOne ==
    [][Commits("select") =>
          /\ req.rec \notin records
          /\ records' = records \cup {req.rec}
          /\ req.rec.participantId = req.participantId
          /\ req.rec.meetingId = req.meetingId
          /\ \A p \in DOMAIN participants :
                participants'[p].selectionCount =
                   participants[p].selectionCount + (IF p = req.participantId THEN 1 ELSE 0)
          /\ \A m \in Meets :
                meetings'[m].totalSpins =
                   meetings[m].totalSpins + (IF m = req.meetingId THEN 1 ELSE 0)]_vars

\* a select has just committed: its record is there, its participant counted
C1_Witness ==
    /\ req.op = "select" /\ req.pc = "done" /\ req.status = 200 /\ req.at = "commit"
    /\ \E r \in records : participants[r.participantId].selectionCount >= 1

\* C2: each participant's selectionCount equals the number of SelectionRecords of
\* that participant, in every committed state.
C2_CountMatchesRecords ==
    \A p \in DOMAIN participants : participants[p].selectionCount = CountOf(records, p)

\* C3: each meeting's totalSpins equals the number of SelectionRecords of that
\* meeting, in every committed state.
C3_SpinsMatchRecords ==
    \A m \in Meets : meetings[m].totalSpins = SpinsOf(records, m)

\* C4: each participant's lastSelected is the greatest selectedAt of that
\* participant's records, and unset when the participant has none.
C4_LastSelectedIsLatest ==
    \A p \in DOMAIN participants :
        LET mine == {r \in records : r.participantId = p}
        IN  IF mine = {}
            THEN participants[p].lastSelected = Null
            ELSE /\ \E r \in mine : r.selectedAt = participants[p].lastSelected
                 /\ \A r \in mine : r.selectedAt <= participants[p].lastSelected

\* C5: a select or recordSelection whose write or commit fails ends in an error with
\* the committed records, counters and statistics untouched; the committed data
\* changes only in a successful commit, which applies all the request's writes.
C5_AllOrNothing ==
    [][/\ (req'.pc = "done" /\ req'.status = 500) =>
              UNCHANGED <<records, participants, meetings>>
       /\ (req.op \in {"select", "create"} /\ ~Commits(req.op)) =>
              UNCHANGED <<records, participants, meetings>>
       /\ (Commits("select") \/ Commits("create")) =>
              /\ records' = records \cup {req.rec}
              /\ participants'[req.participantId].selectionCount =
                    participants[req.participantId].selectionCount + 1
              /\ req.meetingId \in Meets =>
                    meetings'[req.meetingId].totalSpins =
                       meetings[req.meetingId].totalSpins + 1]_vars

\* a select failed after its record and its participant update were written
C5_Witness ==
    /\ req.op = "select" /\ req.pc = "done" /\ req.status = 500 /\ req.at = "updM"
    /\ records = {}
    /\ \A p \in DOMAIN participants : participants[p].selectionCount = 0

\* C6: a reader of the committed collections never sees a new SelectionRecord
\* without its two increments, nor the increments without the record: in every step
\* of a select or recordSelection the counters grow by exactly the records added.
C6_RecordWithCounters ==
    [][req.op \in {"select", "create"} =>
          /\ records \subseteq records'
          /\ \A p \in DOMAIN participants :
                participants'[p].selectionCount =
                   participants[p].selectionCount + CountOf(records' \ records, p)
          /\ \A m \in Meets :
                meetings'[m].totalSpins =
                   meetings[m].totalSpins + SpinsOf(records' \ records, m)]_vars

\* a reader looks while a select holds its record and participant update uncommitted
C6_Witness ==
    /\ req.op = "select" /\ req.pc = "updM"
    /\ req.rec \in tx.records /\ req.rec \notin records
    /\ tx.participants[req.participantId].selectionCount =
          participants[req.participantId].selectionCount + 1

\* the select answered with the eligible sequence of a non-empty pool, filter on
FilteredAnswer ==
    /\ req.op = "select" /\ req.pc = "done" /\ req.status = 200
    /\ req.method = "manual" /\ req.excl /\ Len(req.pool) > 0

NeverSelected(p) == participants[p].lastSelected = Null

\* C7: with excludeRecentlySelected = true and a non-empty pool in which somebody was
\* never selected, the eligible set is exactly the pool's never-selected candidates.
C7_NeverSelectedOnly ==
    (FilteredAnswer /\ \E p \in SeqSet(req.pool) : NeverSelected(p)) =>
        /\ SeqSet(req.eligible) = {p \in SeqSet(req.pool) : NeverSelected(p)}
        /\ Len(req.eligible) = Cardinality(SeqSet(req.eligible))

\* the pool mixes never-selected and selected candidates and the filter dropped some
C7_Witness ==
    /\ FilteredAnswer
    /\ Len(req.pool) = 4
    /\ Cardinality({p \in SeqSet(req.pool) : NeverSelected(p)}) = 3
    /\ Len(req.eligible) = 3

\* C8: with excludeRecentlySelected = true and a non-empty pool of n candidates who
\* all have a lastSelected, the eligible set has ceil(n/2) members, and they are the
\* candidates with the smallest lastSelected.
C8_LeastRecentHalf ==
    (FilteredAnswer /\ \A p \in SeqSet(req.pool) : ~NeverSelected(p)) =>
        LET n == Len(req.pool)
            el == SeqSet(req.eligible)
        IN  /\ 2 * Len(req.eligible) \in {n, n + 1}
            /\ Cardinality(el) = Len(req.eligible)
            /\ el \subseteq SeqSet(req.pool)
            /\ \A e \in el, o \in SeqSet(req.pool) \ el :
                  participants[e].lastSelected <= participants[o].lastSelected

\* three candidates selected at different times: the two oldest are eligible
C8_Witness ==
    /\ FilteredAnswer
    /\ Len(req.pool) = 3
    /\ \A p \in SeqSet(req.pool) : ~NeverSelected(p)
    /\ \E p, q \in SeqSet(req.pool) :
          participants[p].lastSelected # participants[q].lastSelected
    /\ Len(req.eligible) = 2

\* C10 as stated: no select of the scenario's run ever returns C.
C10_NeverReturnsC ==
    req.op = "select" => req.participantId # "C"

\* C10 amended: a select of the run returns A or B, never C, as long as A or B has
\* never been selected; once both have a lastSelected, C is among the least recently
\* selected half and can be returned.
C10_ABWhileNeverSelected ==
    [][(/\ req.pc = "idle" /\ req'.pc = "save"
        /\ \E p \in {"A", "B"} : NeverSelected(p)) =>
           req'.participantId \in {"A", "B"}]_vars

\* the second select of the run has committed: A and B both selected, C still at 3
C10_Witness ==
    /\ req.op = "select" /\ req.pc = "done" /\ req.status = 200
    /\ ~NeverSelected("A") /\ ~NeverSelected("B")
    /\ participants["A"].selectionCount = 1 /\ participants["B"].selectionCount = 1
    /\ participants["C"].selectionCount = 3

\* C9: under repeated successful selects with excludeRecentlySelected = true on a fixed
\* pool, every participant is in the eligible set again and again, whoever is picked.
C9_NoStarvation ==
    \A p \in AllParts : []<>(p \in LiveEligible)

\* everybody has been selected and D, the most recently selected, is excluded
C9_Witness ==
    /\ \A p \in AllParts : ~NeverSelected(p)
    /\ "D" \notin LiveEligible
    /\ \A p \in AllParts \ {"D"} :
          participants[p].lastSelected < participants["D"].lastSelected

\* the selectionCounts of the candidates of el, in el's order
CountsOf(el) == [i \in 1..Len(el) |-> participants[el[i]].selectionCount]

\* C11: in a weighted pick over a non-empty eligible set each candidate weighs
\* max(selectionCount over the set) - its selectionCount + 1, at least 1; the walk
\* returns the first candidate whose cumulative weight reaches the draw; every
\* candidate is the result for some draw in [0, sum of weights); and
\* selectionCounts [0,5,10] give the weights 11, 6, 1.
C11_WeightsPositiveAndReachable ==
    /\ req.op = "weighted" =>
          LET el == req.eligible
              n == Len(el)
              cnt == CountsOf(el)
              mx == CHOOSE c \in {cnt[i] : i \in 1..n} : \A i \in 1..n : cnt[i] <= c
              Cum(i) == SeqSum([j \in 1..i |-> mx - cnt[j] + 1])
          IN  /\ \A i \in 1..n : req.weights[i] = mx - cnt[i] + 1 /\ req.weights[i] >= 1
              /\ req.draw < 2 * Cum(n)
              /\ \E i \in 1..n :
                    /\ req.participantId = el[i]
                    /\ req.draw <= 2 * Cum(i)
                    /\ i > 1 => req.draw > 2 * Cum(i - 1)
              /\ cnt = <<0, 5, 10>> => req.weights = <<11, 6, 1>>
    /\ req.pc = "idle" =>
          LET el == EligibleSeq(participants, FindPool(participants, "M", "eng"), FALSE)
          IN  \A i \in 1..Len(el) : el[i] \in PickSet(participants, el, "weighted")

\* counts 0, 5, 10: the walk ended on the candidate of weight 1
C11_Witness ==
    /\ req.op = "weighted"
    /\ CountsOf(req.eligible) = <<0, 5, 10>>
    /\ req.weights = <<11, 6, 1>>
    /\ req.participantId = "C"

\* C12: a select with method manual answers with the whole eligible set (the pool
\* after the recency filter) and leaves the SelectionRecords, every participant's
\* selectionCount and lastSelected and every meeting's totalSpins and lastActivity
\* unchanged.
C12_ManualReturnsEligibleOnly ==
    [][(req.pc = "idle" /\ req'.op = "select" /\ req'.pc = "done"
                        /\ req'.method = "manual") =>
          LET pool == SeqSet(req'.pool)
              el == SeqSet(req'.eligible)
              never == {p \in pool : NeverSelected(p)}
          IN  /\ req'.status = 200
              /\ UNCHANGED <<records, participants, meetings>>
              /\ Len(req'.eligible) = Cardinality(el)
              /\ IF ~req'.excl THEN req'.eligible = req'.pool
                 ELSE IF never # {} THEN el = never
                 ELSE /\ el \subseteq pool
                      /\ 2 * Cardinality(el) \in {Len(req'.pool), Len(req'.pool) + 1}
                      /\ \A e \in el, o \in pool \ el :
                            participants[e].lastSelected <= participants[o].lastSelected]_vars

\* a manual select after a committed selection: the filter left the selected
\* participant out, and the record and the counters are as they were
C12_Witness ==
    /\ req.op = "select" /\ req.pc = "done" /\ req.method = "manual" /\ req.status = 200
    /\ Len(req.pool) = 2 /\ Len(req.eligible) = 1
    /\ Cardinality(records) = 1
    /\ \E p \in DOMAIN participants : participants[p].selectionCount = 1

\* C13: a select whose selectionMethod is none of random, weighted, manual fails with
\* the invalid-method error, a caller-input error: it picks no participant and writes
\* and commits nothing.
C13_InvalidMethodPicksNobody ==
    (req.op = "select" /\ req.method \notin MethodEnum \cup {Missing}) =>
        /\ req.pc = "done" /\ req.status = 400
        /\ req.participantId = Missing
        /\ req.rec = NoRec

\* C14: the candidate pool of a select is exactly the active participants on the
\* meeting's roster when the meeting has one, and otherwise exactly the active
\* participants of the requested department; the select finds nobody only when
\* that set is empty.
C14_PoolIsRosterOrDepartment ==
    [][(req.pc = "idle" /\ req.meetingId \in Meets /\ req'.pc = "done") =>
          LET m == req.meetingId
              expected == IF Roster(m) # {}
                          THEN {p \in DOMAIN participants :
                                   participants[p].isActive /\ Email(p) \in Roster(m)}
                          ELSE {p \in DOMAIN participants :
                                   /\ participants[p].isActive
                                   /\ participants[p].department = req.department}
          IN  IF expected = {} THEN req'.status = 404
              ELSE req'.status = 200 /\ SeqSet(req'.pool) = expected]_vars

\* C15: recordSelection for a meetingId or a participantId that names no document
\* fails with not-found and commits nothing: no committed SelectionRecord names an
\* absent meeting or an absent participant.
C15_NoRecordOfAbsentDocuments ==
    \A r \in records : r.meetingId \in Meets /\ r.participantId \in DOMAIN participants

\* C16: a select that ends in a validation error (meetingId or department missing),
\* in meeting-not-found or in no-eligible-participants leaves the SelectionRecords,
\* the participants' counters and the meetings' statistics unchanged, and its
\* transaction is aborted, not committed.
C16_InputErrorsAbort ==
    [][(req.pc # "done" /\ req'.op = "select" /\ req'.pc = "done"
                        /\ req'.status \in {400, 404}) =>
          /\ req.pc = "idle"
          /\ UNCHANGED <<records, participants, meetings>>
          /\ tx'.ended = "aborted"]_vars

\* a select found no meeting or no participant while a committed record exists
C16_Witness ==
    /\ req.op = "select" /\ req.pc = "done" /\ req.status = 404
    /\ tx.ended = "aborted"
    /\ records # {}
    /\ \E p \in DOMAIN participants : participants[p].selectionCount = 1

\* C17: clearHistory is idempotent: once a clearHistory has committed, nothing is left
\* for a second call with the same scope to clear or reset, and every participant
\* whose records the call removed has selectionCount 0 and lastSelected unset.
C17_ClearIdempotent ==
    [][Commits("clear") =>
          /\ \A r \in records' : ~RecordMatches(r, req.department, req.meetingId)
          /\ \A p \in DOMAIN participants :
                ParticipantMatches(participants'[p], req.department, req.meetingId) =>
                   /\ participants'[p].selectionCount = 0
                   /\ participants'[p].lastSelected = Null
          /\ req.meetingId \in Meets => meetings'[req.meetingId].totalSpins = 0
          /\ \A p \in DOMAIN participants :
                (\E r \in records \ records' : r.participantId = p) =>
                   /\ participants'[p].selectionCount = 0
                   /\ participants'[p].lastSelected = Null]_vars

\* C18: tenant isolation of select: the participant a select picks belongs to the
\* organization of the meeting the select was asked for.
C18_SelectStaysInOrganization ==
    (req.op = "select" /\ req.pc = "save") =>
        PartOrg(req.participantId) = MeetOrg(req.meetingId)

\* the position of a request among its writes
StepRank(pc) ==
    CASE pc = "idle" -> 0
      [] pc = "save" -> 1
      [] pc = "updP" -> 2
      [] pc = "updM" -> 3
      [] pc = "commit" -> 4
      [] OTHER -> 5

\* C19: no retry: a select or recordSelection request goes through its three writes
\* and its commit at most once, each step moving it forward; its transaction never
\* holds more than the one new record; a request adds at most one SelectionRecord,
\* and one that ends in a failed transaction (500) adds none.
C19_NoRetry ==
    [][/\ (req.op \in {"select", "create"} /\ req.pc # "done" /\ req' # req) =>
              /\ StepRank(req'.pc) > StepRank(req.pc)
              /\ req'.pc # "done" => req'.rec = req.rec
       /\ (req'.op \in {"select", "create"} /\ tx'.open) =>
              tx'.records \ records' \subseteq {req'.rec}
       /\ Cardinality(records' \ records) <= 1
       /\ (req'.pc = "done" /\ req'.status = 500) => records' = records]_vars

\* a select failed at its commit, after all three writes: nothing was added and no
\* second attempt was made (one record id was used)
C19_Witness ==
    /\ req.op = "select" /\ req.pc = "done" /\ req.status = 500 /\ req.at = "commit"
    /\ records = {}
    /\ nextId = 2

C21_CountersChangeOnlyInWritePath ==
    [][(\E p \in DOMAIN participants :
           \/ participants'[p].selectionCount # participants[p].selectionCount
           \/ participants'[p].lastSelected # participants[p].lastSelected) =>
          (Commits("select") \/ Commits("create") \/ Commits("clear"))]_vars

\* C22: getFairness over all participants returns totalParticipants = the number of
\* participants and fairnessScore = round(100 x participants with at least one
\* selection / participants), the never-selected counting in the total; with no
\* participant it returns 0 and 0.
C22_FairnessCountsEverybody ==
    (req.op = "fairness" /\ req.meetingId = Missing) =>
        LET all == DOMAIN participants
            selected == {p \in all : CountOf(records, p) >= 1}
        IN  /\ req.result.totalParticipants = Cardinality(all)
            /\ req.result.fairnessScore =
                  IF all = {} THEN 0 ELSE Round(100 * Cardinality(selected), Cardinality(all))

\* C27: getEngagementScore reports a participationRate and a repeatUsageRate between
\* 0 and 100 and an overallScore between 0 and 10.
C27_EngagementRatesInRange ==
    req.op = "engagement" =>
        /\ req.result.participationRate \in 0..100
        /\ req.result.repeatUsageRate \in 0..100
        /\ req.result.overallTenths \in 0..100

\* C23: the trend of current-week value c and previous-week value p is "+100%" when
\* p = 0 and c > 0, "+0%" when p = 0 and c = 0, and otherwise the rounded value of
\* (c - p) / p x 100, written with a leading "+" when it is not negative; 20 after 10
\* is "+100%".
C23_TrendText ==
    (req.op = "trend" /\ req.pc = "done") =>
        LET c == req.current
            p == req.previous
            rounded == Round((c - p) * 100, p)
        IN  /\ (p = 0 /\ c > 0) => req.result = <<"+", 100>>
            /\ (p = 0 /\ c = 0) => req.result = <<"+", 0>>
            /\ p > 0 => req.result = IF rounded >= 0 THEN <<"+", rounded>>
                                                     ELSE <<"-", -rounded>>
            /\ (c = 20 /\ p = 10) => req.result = <<"+", 100>>

\* the handlers whose request has committed
CommittedProcs == {i \in Procs : req[i].pc = "done" /\ req[i].status = 200}

C25_EndedExactlyOnce ==
    (req.pc = "done" /\ req.op \in {"select", "create", "clear"}) =>
        /\ ~tx.open
        /\ tx.ended \in {"aborted", "committed"}
        /\ tx.calls = 1

\* C26: the department stored on a SelectionRecord written by select or
\* recordSelection is the selected participant's own department, whatever the
\* request carries (no handler of this specification changes a participant's
\* department afterwards; the name and the team are not part of the model's records).
C26_RecordCarriesParticipantDepartment ==
    \A r \in records : r.department = participants[r.participantId].department

\* C28: the recency filter never empties a non-empty pool: a select whose candidate
\* pool is non-empty is answered with an eligible sequence that is non-empty and
\* within the pool (the pool itself when excludeRecentlySelected is false), and a
\* select answers 'no eligible participants' (404) exactly when the pool is empty.
C28_FilterKeepsSomebody ==
    [][(req.pc = "idle" /\ req.meetingId # Missing /\ req'.pc = "done") =>
          LET pool == FindPool(participants, req.meetingId, req.department)
          IN  IF Len(pool) = 0
              THEN req'.status = 404
              ELSE /\ req'.status = 200
                   /\ req'.pool = pool
                   /\ Len(req'.eligible) > 0
                   /\ SeqSet(req'.eligible) \subseteq SeqSet(pool)
                   /\ (~req.excl => req'.eligible = pool)]_vars

\* the smallest pool the filter halves: one candidate, selected before, who stays
C28_Witness ==
    /\ req.op = "select" /\ req.pc = "done" /\ req.status = 200 /\ req.excl
    /\ Len(req.pool) = 1
    /\ ~NeverSelected(req.pool[1])
    /\ req.eligible = req.pool

\* C29: over a non-empty eligible sequence the methods random and weighted pick, for
\* every draw, one participant, and that participant is in the eligible sequence:
\* selectedParticipant is never undefined at line 268.
C29_PickIsEligible ==
    (req.op = "pick" /\ req.pc = "done") =>
        /\ Len(req.eligible) > 0
        /\ req.participantId # Missing
        /\ req.participantId \in SeqSet(req.eligible)

\* a weighted pick among three candidates of different counts fell on the last one,
\* the most selected
C29_Witness ==
    /\ req.op = "pick" /\ req.pc = "done" /\ req.method = "weighted"
    /\ Len(req.eligible) = 3
    /\ req.participantId = req.eligible[3]
    /\ participants[req.eligible[3]].selectionCount = 10
    /\ participants[req.eligible[1]].selectionCount = 0

\* the status changes a step makes to the stored jobs all lie in allowed; jobs stay;
\* a new job is pending, is the document createExportJob returns, and its processing
\* has not yet read it; completed comes with a downloadUrl and failed with an error.
\* With <<"pending", "failed">> among the allowed changes every step of ExportSpec
\* satisfies it.
StatusSteps(allowed) ==
    /\ \A j \in records : \E k \in records' : k.id = j.id
    /\ \A k \in records' :
          /\ IF \E j \in records : j.id = k.id
             THEN LET j == JobOf(k.id)
                  IN  k.status = j.status \/ <<j.status, k.status>> \in allowed
             ELSE /\ k.status = "pending"
                  /\ req'[k.id].returned = k
                  /\ req'[k.id].pc = "find"
          /\ k.status = "completed" => k.downloadUrl # Missing
          /\ k.status = "failed" => k.error # Missing

\* C30: an export job's status only moves pending -> processing -> completed or
\* pending -> processing -> failed; completed and failed are never left; completed
\* comes with a downloadUrl, failed with an error; a created job is returned pending.
C30_StatusMoves ==
    [][StatusSteps({<<"pending", "processing">>, <<"processing", "completed">>,
                    <<"processing", "failed">>})]_vars
====
